---- MODULE Spec2Model ----
(***************************************************************************)
(* Model of monitoring_setup.py: the two builders create_drift_signal and  *)
(* create_monitor_schedule, the dataclasses they construct and the client  *)
(* they forward the descriptor to; and of the scripts that run on top of   *)
(* them or beside them: create_monitor.py, train_register.py,              *)
(* upload_inference.py and scripts/check_monitor_api_versions.py.          *)
(*                                                                         *)
(* Python strings are sequences of one-character strings, so that          *)
(* concatenation, rstrip and substring tests are computed, not assumed.    *)
(* A Python float threshold is an integer number of hundredths.            *)
(***************************************************************************)
EXTENDS Integers, Sequences, FiniteSets, TLC

VARIABLES
    ml_client,        \* which attributes the client has
    signals_calls,    \* the arguments of monitor_signals.create_or_update, in call order
    schedules_calls,  \* the arguments of monitor_schedules.create_or_update, in call order
    fn,               \* the builder being run
    pc,               \* where it is
    args,             \* the arguments it was called with
    local,            \* the descriptor it constructed
    response,         \* what create_or_update returned to it
    thrown,           \* what create_or_update raised
    exc,              \* the exception that reached the builder's caller
    ret,              \* the value the builder returned
    entry,            \* the lengths of the two call lists when the builder was entered
    history,          \* the builder calls that returned, in order: builder, arguments, result
    script,           \* the script being run, "none" when the builders are called directly
    main_pc,          \* where its main() is
    env,              \* the environment variables of the process
    ended,            \* how main() ended: SystemExit or the exception that left it
    stdout,           \* what main() printed, in order
    files,            \* the files main() wrote, in order
    frame,            \* the local variables of main()
    requests          \* the remote calls main() made itself, in order

\* the state of a builder invocation and of the client it runs on
buildervars == <<ml_client, signals_calls, schedules_calls, fn, pc, args, local,
                 response, thrown, exc, ret, entry>>

\* the state of a script run
scriptvars == <<script, main_pc, env, ended, stdout, files, frame, requests>>

vars == <<ml_client, signals_calls, schedules_calls, fn, pc, args, local,
          response, thrown, exc, ret, entry, history,
          script, main_pc, env, ended, stdout, files, frame, requests>>

(***************************************************************************)
(* Bounds of the model.                                                    *)
(***************************************************************************)
\* longest path argument, in characters
MaxPathLen == 2
\* longest feature list
MaxFeatures == 2
\* most builder calls made one after the other on one client
MaxCalls == 3

(***************************************************************************)
(* Values.                                                                 *)
(***************************************************************************)
\* Python's None in a slot of type Optional[str]
None == <<"None">>
\* a slot that holds no value (nothing returned, nothing raised, no call yet)
NoValue == [unset |-> TRUE]

\* all sequences over S of length at most n
RECURSIVE SeqsUpTo(_, _)
SeqsUpTo(S, n) ==
    IF n = 0 THEN {<<>>}
    ELSE LET shorter == SeqsUpTo(S, n - 1)
         IN  shorter \cup {Append(s, c) : s \in shorter, c \in S}

\* the inputs the builders are called with
Names == {<<>>, <<"s">>}
SignalNames == {<<>>, <<"s", "g">>}
BaselineDatasets == {<<>>, <<"t", "r">>, <<"a", ":", "/">>}
DatastoreNames == {<<>>, <<"d", "s", "1">>}
Paths == SeqsUpTo({"m", "/"}, MaxPathLen)
FeatureLists == SeqsUpTo({"f1", "f2"}, MaxFeatures)
Metrics == {<<"p", "s", "i">>}
Thresholds == {-5, 10}
Frequencies == {<<"D", "a", "y">>}
Descriptions == {<<>>, <<"d">>}

\* what a client's create_or_update can return, and what it can raise
Responses == {[none |-> TRUE], [remote |-> "created"], [other |-> "anything"]}
Exceptions == {[error |-> "HttpResponseError"], [error |-> "TypeError"]}

\* the attribute shapes of a client the builders probe with hasattr:
\* each capability is missing, present without create_or_update, or complete
Clients ==
    {c \in [monitor_signals : BOOLEAN, monitor_signals_create_or_update : BOOLEAN,
            monitor_schedules : BOOLEAN, monitor_schedules_create_or_update : BOOLEAN] :
        /\ c.monitor_signals_create_or_update => c.monitor_signals
        /\ c.monitor_schedules_create_or_update => c.monitor_schedules}

(***************************************************************************)
(* String helpers.                                                         *)
(***************************************************************************)
\* str.rstrip("/"): drop every trailing "/"
RECURSIVE rstrip(_)
rstrip(s) ==
    IF s = <<>> THEN s
    ELSE IF s[Len(s)] = "/" THEN rstrip(SubSeq(s, 1, Len(s) - 1))
    ELSE s

\* Python's `sub in s` for strings
Contains(s, sub) ==
    \E i \in 1..(Len(s) - Len(sub) + 1) : SubSeq(s, i, i + Len(sub) - 1) = sub

(***************************************************************************)
(* The dataclasses.                                                        *)
(***************************************************************************)
DataDriftSignal(name, baseline_data, target_data, features, metric, threshold) ==
    [name |-> name, baseline_data |-> baseline_data, target_data |-> target_data,
     features |-> features, metric |-> metric, threshold |-> threshold]

MonitorSchedule(name, signals, frequency, description) ==
    [name |-> name, signals |-> signals, frequency |-> frequency,
     description |-> description]

\* baseline_ref with the URI form of the target reference
baseline_ref_as_uri(baseline_dataset) ==
    <<"a", "z", "u", "r", "e", "m", "l", ":", "/", "/">> \o baseline_dataset

\* f'azureml:{baseline_dataset}'
baseline_ref(baseline_dataset) ==
    <<"a", "z", "u", "r", "e", "m", "l", ":">> \o baseline_dataset

\* target_ref without the rstrip
target_ref_no_rstrip(datastore_name, path) ==
    <<"a", "z", "u", "r", "e", "m", "l", ":", "/", "/">>
    \o <<"d", "a", "t", "a", "s", "t", "o", "r", "e", "s", "/">>
    \o datastore_name
    \o <<"/", "p", "a", "t", "h", "s", "/">>
    \o path
    \o <<"/">>

\* target_ref that leaves the datastore name out
target_ref_no_datastore(datastore_name, path) ==
    <<"a", "z", "u", "r", "e", "m", "l", ":", "/", "/">>
    \o <<"d", "a", "t", "a", "s", "t", "o", "r", "e", "s", "/">>
    \o <<"p", "a", "t", "h", "s", "/">>
    \o rstrip(path)
    \o <<"/">>

\* f'azureml://datastores/{datastore_name}/paths/{path.rstrip("/")}/'
target_ref(datastore_name, path) ==
    <<"a", "z", "u", "r", "e", "m", "l", ":", "/", "/">>
    \o <<"d", "a", "t", "a", "s", "t", "o", "r", "e", "s", "/">>
    \o datastore_name
    \o <<"/", "p", "a", "t", "h", "s", "/">>
    \o rstrip(path)
    \o <<"/">>

\* a list without its repeated elements, first occurrences kept
RECURSIVE Dedup(_)
Dedup(l) ==
    IF l = <<>> THEN l
    ELSE LET front == Dedup(SubSeq(l, 1, Len(l) - 1))
             last == l[Len(l)]
         IN  IF \E i \in 1..Len(front) : front[i] = last THEN front
             ELSE Append(front, last)

\* BuildSignal that deduplicates the feature list
BuildSignal_dedup(a) ==
    DataDriftSignal(a.name, baseline_ref(a.baseline_dataset),
                    target_ref(a.datastore_name, a.path),
                    Dedup(a.features), a.metric, a.threshold)

\* the signal create_drift_signal constructs from its arguments
BuildSignal(a) ==
    DataDriftSignal(a.name, baseline_ref(a.baseline_dataset),
                    target_ref(a.datastore_name, a.path),
                    a.features, a.metric, a.threshold)

\* line 50: the parameters of create_monitor_schedule bound from the keyword
\* arguments of a call; description defaults to None
ScheduleParams(kw) ==
    [name |-> kw.name, signal_name |-> kw.signal_name, frequency |-> kw.frequency,
     description |-> IF "description" \in DOMAIN kw THEN kw.description ELSE None]

\* BuildSchedule with signals=list(signal_name): one element per character
BuildSchedule_list_of_name(kw) ==
    LET a == ScheduleParams(kw)
    IN  MonitorSchedule(a.name, [i \in 1..Len(a.signal_name) |-> <<a.signal_name[i]>>],
                        a.frequency, a.description)

\* the schedule create_monitor_schedule constructs from its arguments
BuildSchedule(kw) ==
    LET a == ScheduleParams(kw)
    IN  MonitorSchedule(a.name, <<a.signal_name>>, a.frequency, a.description)

\* the capability tests of the two builders
SignalsCapable(c) == c.monitor_signals /\ c.monitor_signals_create_or_update
SchedulesCapable(c) == c.monitor_schedules /\ c.monitor_schedules_create_or_update

SignalArgs ==
    [name : Names, baseline_dataset : BaselineDatasets, datastore_name : DatastoreNames,
     path : Paths, features : FeatureLists, metric : Metrics, threshold : Thresholds]

\* the keyword arguments of a call of create_monitor_schedule, with or
\* without description
ScheduleArgs ==
    [name : Names, signal_name : SignalNames, frequency : Frequencies]
    \cup [name : Names, signal_name : SignalNames, frequency : Frequencies,
          description : Descriptions \cup {None}]

(***************************************************************************)
(* State machine: one builder invocation on a client.                      *)
(***************************************************************************)
\* no script is running
NoScript ==
    /\ script = "none"
    /\ main_pc = "none"
    /\ env = NoValue
    /\ ended = NoValue
    /\ stdout = <<>>
    /\ files = <<>>
    /\ frame = NoValue
    /\ requests = <<>>

Init ==
    /\ NoScript
    /\ history = <<>>
    /\ ml_client \in Clients
    /\ signals_calls = <<>>
    /\ schedules_calls = <<>>
    /\ fn = "none"
    /\ pc = "idle"
    /\ args = NoValue
    /\ local = NoValue
    /\ response = NoValue
    /\ thrown = NoValue
    /\ exc = NoValue
    /\ ret = NoValue
    /\ entry = [signals |-> 0, schedules |-> 0]

\* create_drift_signal_build that rejects an empty feature list or name
create_drift_signal_build_validating(a) ==
    /\ pc = "idle"
    /\ fn' = "create_drift_signal"
    /\ args' = a
    /\ entry' = [signals |-> Len(signals_calls), schedules |-> Len(schedules_calls)]
    /\ response' = NoValue
    /\ thrown' = NoValue
    /\ ret' = NoValue
    /\ IF a.features = <<>> \/ a.name = <<>>
          THEN pc' = "raised" /\ local' = NoValue /\ exc' = [error |-> "ValueError"]
          ELSE pc' = "signal_built" /\ local' = BuildSignal(a) /\ exc' = NoValue
    /\ UNCHANGED <<ml_client, signals_calls, schedules_calls>>

\* create_drift_signal, lines 31-41: build the references and the signal
create_drift_signal_build(a) ==
    /\ pc = "idle"
    /\ fn' = "create_drift_signal"
    /\ pc' = "signal_built"
    /\ args' = a
    /\ local' = BuildSignal(a)
    /\ entry' = [signals |-> Len(signals_calls), schedules |-> Len(schedules_calls)]
    /\ response' = NoValue
    /\ thrown' = NoValue
    /\ exc' = NoValue
    /\ ret' = NoValue
    /\ UNCHANGED <<ml_client, signals_calls, schedules_calls>>

\* create_drift_signal_upsert that calls create_or_update twice
create_drift_signal_upsert_twice(r) ==
    /\ pc = "signal_built"
    /\ SignalsCapable(ml_client)
    /\ signals_calls' = Append(Append(signals_calls, local), local)
    /\ response' = r
    /\ pc' = "signal_return"
    /\ UNCHANGED <<ml_client, schedules_calls, fn, args, local, thrown, exc, ret, entry>>

\* create_drift_signal_upsert that skips a signal whose name it has sent before
create_drift_signal_upsert_cached(r) ==
    /\ pc = "signal_built"
    /\ SignalsCapable(ml_client)
    /\ signals_calls' =
          IF \E i \in 1..Len(signals_calls) : signals_calls[i].name = local.name
            THEN signals_calls
            ELSE Append(signals_calls, local)
    /\ response' = r
    /\ pc' = "signal_return"
    /\ UNCHANGED <<ml_client, schedules_calls, fn, args, local, thrown, exc, ret, entry>>

\* create_drift_signal_upsert that registers the signal on monitor_schedules too
create_drift_signal_upsert_both(r) ==
    /\ pc = "signal_built"
    /\ SignalsCapable(ml_client)
    /\ signals_calls' = Append(signals_calls, local)
    /\ schedules_calls' = Append(schedules_calls, local)
    /\ response' = r
    /\ pc' = "signal_return"
    /\ UNCHANGED <<ml_client, fn, args, local, thrown, exc, ret, entry>>

\* lines 44-45, capable client, create_or_update returns r
create_drift_signal_upsert(r) ==
    /\ pc = "signal_built"
    /\ SignalsCapable(ml_client)
    /\ signals_calls' = Append(signals_calls, local)
    /\ response' = r
    /\ pc' = "signal_return"
    /\ UNCHANGED <<ml_client, schedules_calls, fn, args, local, thrown, exc, ret, entry>>

\* create_drift_signal_upsert_raises with the call in a try/except that warns
\* and goes on, as create_monitor.py does around its own calls
create_drift_signal_upsert_swallows(e) ==
    /\ pc = "signal_built"
    /\ SignalsCapable(ml_client)
    /\ signals_calls' = Append(signals_calls, local)
    /\ thrown' = e
    /\ pc' = "signal_return"
    /\ UNCHANGED <<ml_client, schedules_calls, fn, args, local, response, exc, ret, entry>>

\* lines 44-45, capable client, create_or_update raises e: nothing catches it
create_drift_signal_upsert_raises(e) ==
    /\ pc = "signal_built"
    /\ SignalsCapable(ml_client)
    /\ signals_calls' = Append(signals_calls, local)
    /\ thrown' = e
    /\ exc' = e
    /\ pc' = "raised"
    /\ UNCHANGED <<ml_client, schedules_calls, fn, args, local, response, ret, entry>>

\* create_drift_signal_skip without the hasattr guard: the attribute lookup fails
create_drift_signal_skip_unguarded ==
    /\ pc = "signal_built"
    /\ ~SignalsCapable(ml_client)
    /\ exc' = [error |-> "AttributeError"]
    /\ pc' = "raised"
    /\ UNCHANGED <<ml_client, signals_calls, fn, schedules_calls, args, local,
                   response, thrown, ret, entry>>

\* line 44 false: the call is skipped
create_drift_signal_skip ==
    /\ pc = "signal_built"
    /\ ~SignalsCapable(ml_client)
    /\ pc' = "signal_return"
    /\ UNCHANGED <<ml_client, signals_calls, fn, schedules_calls, args, local,
                   response, thrown, exc, ret, entry>>

\* create_drift_signal_return that returns the remote object when there is one
create_drift_signal_return_response ==
    /\ pc = "signal_return"
    /\ ret' = IF response \in {NoValue, [none |-> TRUE]} THEN local ELSE response
    /\ pc' = "returned"
    /\ UNCHANGED <<ml_client, signals_calls, fn, schedules_calls, args, local,
                   response, thrown, exc, entry>>

\* line 47: return signal
create_drift_signal_return ==
    /\ pc = "signal_return"
    /\ ret' = local
    /\ pc' = "returned"
    /\ UNCHANGED <<ml_client, signals_calls, fn, schedules_calls, args, local,
                   response, thrown, exc, entry>>

\* create_monitor_schedule, lines 55-60: build the schedule
create_monitor_schedule_build(a) ==
    /\ pc = "idle"
    /\ fn' = "create_monitor_schedule"
    /\ pc' = "schedule_built"
    /\ args' = a
    /\ local' = BuildSchedule(a)
    /\ entry' = [signals |-> Len(signals_calls), schedules |-> Len(schedules_calls)]
    /\ response' = NoValue
    /\ thrown' = NoValue
    /\ exc' = NoValue
    /\ ret' = NoValue
    /\ UNCHANGED <<ml_client, signals_calls, schedules_calls>>

\* lines 62-63, capable client, create_or_update returns r
create_monitor_schedule_upsert(r) ==
    /\ pc = "schedule_built"
    /\ SchedulesCapable(ml_client)
    /\ schedules_calls' = Append(schedules_calls, local)
    /\ response' = r
    /\ pc' = "schedule_return"
    /\ UNCHANGED <<ml_client, signals_calls, fn, args, local, thrown, exc, ret, entry>>

\* lines 62-63, capable client, create_or_update raises e: nothing catches it
create_monitor_schedule_upsert_raises(e) ==
    /\ pc = "schedule_built"
    /\ SchedulesCapable(ml_client)
    /\ schedules_calls' = Append(schedules_calls, local)
    /\ thrown' = e
    /\ exc' = e
    /\ pc' = "raised"
    /\ UNCHANGED <<ml_client, signals_calls, fn, args, local, response, ret, entry>>

\* line 62 false: the call is skipped
create_monitor_schedule_skip ==
    /\ pc = "schedule_built"
    /\ ~SchedulesCapable(ml_client)
    /\ pc' = "schedule_return"
    /\ UNCHANGED <<ml_client, signals_calls, fn, schedules_calls, args, local,
                   response, thrown, exc, ret, entry>>

\* line 65: return schedule
create_monitor_schedule_return ==
    /\ pc = "schedule_return"
    /\ ret' = local
    /\ pc' = "returned"
    /\ UNCHANGED <<ml_client, signals_calls, fn, schedules_calls, args, local,
                   response, thrown, exc, entry>>

\* a builder is entered only from "idle": the test is repeated here so that
\* the arguments are enumerated in that state alone
Next ==
    \/ /\ pc = "idle" /\ \E a \in SignalArgs : create_drift_signal_build(a)
       /\ UNCHANGED <<history, scriptvars>>
    \/ /\ \E r \in Responses : create_drift_signal_upsert(r)
       /\ UNCHANGED <<history, scriptvars>>
    \/ /\ \E e \in Exceptions : create_drift_signal_upsert_raises(e)
       /\ UNCHANGED <<history, scriptvars>>
    \/ /\ create_drift_signal_skip
       /\ UNCHANGED <<history, scriptvars>>
    \/ /\ create_drift_signal_return
       /\ UNCHANGED <<history, scriptvars>>
    \/ /\ pc = "idle" /\ \E a \in ScheduleArgs : create_monitor_schedule_build(a)
       /\ UNCHANGED <<history, scriptvars>>
    \/ /\ \E r \in Responses : create_monitor_schedule_upsert(r)
       /\ UNCHANGED <<history, scriptvars>>
    \/ /\ \E e \in Exceptions : create_monitor_schedule_upsert_raises(e)
       /\ UNCHANGED <<history, scriptvars>>
    \/ /\ create_monitor_schedule_skip
       /\ UNCHANGED <<history, scriptvars>>
    \/ /\ create_monitor_schedule_return
       /\ UNCHANGED <<history, scriptvars>>

Spec == Init /\ [][Next]_vars

(***************************************************************************)
(* State machine: builder calls one after the other on one client, as the  *)
(* tests and create_monitor.main make them. A call that raises ends the    *)
(* sequence: nothing here catches the exception.                           *)
(***************************************************************************)
\* the arguments of the calls of a sequence
SeqSignalArgs ==
    [name : Names, baseline_dataset : {<<"t", "r">>}, datastore_name : {<<"d", "s", "1">>},
     path : {<<"m", "/">>}, features : {<<"f1", "f2">>}, metric : Metrics,
     threshold : Thresholds]

SeqScheduleArgs ==
    [name : Names, signal_name : {<<"s", "g">>}, frequency : Frequencies]

\* the call that returned, as its caller saw it
Returned == [fn |-> fn, args |-> args, ret |-> ret']

\* the caller goes on to its next builder call
next_call ==
    /\ pc = "returned"
    /\ Len(history) < MaxCalls
    /\ pc' = "idle"
    /\ fn' = "none"
    /\ args' = NoValue
    /\ local' = NoValue
    /\ response' = NoValue
    /\ ret' = NoValue
    /\ UNCHANGED <<ml_client, signals_calls, schedules_calls, thrown, exc, entry>>

NextSeq ==
    \/ /\ pc = "idle" /\ \E a \in SeqSignalArgs : create_drift_signal_build(a)
       /\ UNCHANGED <<history, scriptvars>>
    \/ /\ \E r \in Responses : create_drift_signal_upsert(r)
       /\ UNCHANGED <<history, scriptvars>>
    \/ /\ \E e \in Exceptions : create_drift_signal_upsert_raises(e)
       /\ UNCHANGED <<history, scriptvars>>
    \/ /\ create_drift_signal_skip
       /\ UNCHANGED <<history, scriptvars>>
    \/ /\ create_drift_signal_return
       /\ history' = Append(history, Returned)
       /\ UNCHANGED scriptvars
    \/ /\ pc = "idle" /\ \E a \in SeqScheduleArgs : create_monitor_schedule_build(a)
       /\ UNCHANGED <<history, scriptvars>>
    \/ /\ \E r \in Responses : create_monitor_schedule_upsert(r)
       /\ UNCHANGED <<history, scriptvars>>
    \/ /\ \E e \in Exceptions : create_monitor_schedule_upsert_raises(e)
       /\ UNCHANGED <<history, scriptvars>>
    \/ /\ create_monitor_schedule_skip
       /\ UNCHANGED <<history, scriptvars>>
    \/ /\ create_monitor_schedule_return
       /\ history' = Append(history, Returned)
       /\ UNCHANGED scriptvars
    \/ /\ next_call
       /\ UNCHANGED <<history, scriptvars>>

SpecSeq == Init /\ [][NextSeq]_vars

(***************************************************************************)
(* State machine: create_monitor.main. It calls the two builders, which    *)
(* run as above, and then calls create_or_update itself on what they       *)
(* returned.                                                               *)
(***************************************************************************)
\* Python's None in a slot that holds an object
NoneObject == [none |-> TRUE]

\* the environment variables the scripts read, and what one can hold:
\* unset (os.environ.get gives None), empty, or a value
EnvNames ==
    {"AZURE_SUBSCRIPTION_ID", "AZURE_RESOURCE_GROUP", "AZURE_ML_WORKSPACE",
     "DEFAULT_DATASTORE"}
EnvValues == {None, <<>>, <<"v">>}

\* Python's `not val` for a value of os.environ.get
Falsy(val) == val = None \/ val = <<>>

\* the exit of `raise SystemExit(...)` and of sys.exit(...)
SystemExit == [error |-> "SystemExit"]

\* one print() call
Printed(msg, arg) == [msg |-> msg, arg |-> arg]

\* 'tx_data_drift_signal'
tx_data_drift_signal ==
    <<"t", "x", "_", "d", "a", "t", "a", "_", "d", "r", "i", "f", "t", "_",
      "s", "i", "g", "n", "a", "l">>

\* 'tx_training_dataset'
training_dataset_name ==
    <<"t", "x", "_", "t", "r", "a", "i", "n", "i", "n", "g", "_", "d", "a",
      "t", "a", "s", "e", "t">>

\* 'monitoring/inference-batches/'
inference_batches_path ==
    <<"m", "o", "n", "i", "t", "o", "r", "i", "n", "g", "/", "i", "n", "f",
      "e", "r", "e", "n", "c", "e", "-", "b", "a", "t", "c", "h", "e", "s",
      "/">>

\* 'population_stability_index'
population_stability_index ==
    <<"p", "o", "p", "u", "l", "a", "t", "i", "o", "n", "_", "s", "t", "a",
      "b", "i", "l", "i", "t", "y", "_", "i", "n", "d", "e", "x">>

\* 'tx_daily_monitor'
tx_daily_monitor ==
    <<"t", "x", "_", "d", "a", "i", "l", "y", "_", "m", "o", "n", "i", "t",
      "o", "r">>

\* 'Daily monitor for transaction model input drift'
daily_description ==
    <<"D", "a", "i", "l", "y", " ", "m", "o", "n", "i", "t", "o", "r", " ",
      "f", "o", "r", " ", "t", "r", "a", "n", "s", "a", "c", "t", "i", "o",
      "n", " ", "m", "o", "d", "e", "l", " ", "i", "n", "p", "u", "t", " ",
      "d", "r", "i", "f", "t">>

\* main's local variables before any is assigned
EmptyFrame ==
    [signal |-> NoValue, created_signal |-> NoValue,
     schedule |-> NoValue, created_schedule |-> NoValue]

\* the builders are idle on a client that has recorded nothing
BuilderIdle ==
    /\ signals_calls = <<>>
    /\ schedules_calls = <<>>
    /\ fn = "none"
    /\ pc = "idle"
    /\ args = NoValue
    /\ local = NoValue
    /\ response = NoValue
    /\ thrown = NoValue
    /\ exc = NoValue
    /\ ret = NoValue
    /\ entry = [signals |-> 0, schedules |-> 0]
    /\ history = <<>>

InitMain ==
    /\ BuilderIdle
    /\ ml_client \in Clients
    /\ script = "create_monitor"
    /\ main_pc = "env"
    /\ env \in [EnvNames -> EnvValues]
    /\ ended = NoValue
    /\ stdout = <<>>
    /\ files = <<>>
    /\ frame = EmptyFrame
    /\ requests = <<>>

\* lines 23-26: the three workspace variables, then the client
create_monitor_check_env ==
    /\ script = "create_monitor"
    /\ main_pc = "env"
    /\ IF \/ Falsy(env["AZURE_SUBSCRIPTION_ID"])
          \/ Falsy(env["AZURE_RESOURCE_GROUP"])
          \/ Falsy(env["AZURE_ML_WORKSPACE"])
         THEN main_pc' = "exited" /\ ended' = SystemExit
         ELSE main_pc' = "datastore" /\ ended' = ended
    /\ UNCHANGED <<buildervars, history, script, env, stdout, files, frame, requests>>

\* create_monitor_check_datastore that goes on without a datastore
create_monitor_check_datastore_unchecked ==
    /\ script = "create_monitor"
    /\ main_pc = "datastore"
    /\ main_pc' = "signal"
    /\ UNCHANGED <<buildervars, history, script, env, ended, stdout, files, frame,
                   requests>>

\* lines 29-31: DEFAULT_DATASTORE
create_monitor_check_datastore ==
    /\ script = "create_monitor"
    /\ main_pc = "datastore"
    /\ IF Falsy(env["DEFAULT_DATASTORE"])
         THEN main_pc' = "exited" /\ ended' = SystemExit
         ELSE main_pc' = "signal" /\ ended' = ended
    /\ UNCHANGED <<buildervars, history, script, env, stdout, files, frame, requests>>

\* the arguments of the call of lines 35-44; threshold=0.05
MainSignalArgs ==
    [name |-> tx_data_drift_signal,
     baseline_dataset |-> training_dataset_name,
     datastore_name |-> env["DEFAULT_DATASTORE"],
     path |-> inference_batches_path,
     features |-> <<"feature_0", "feature_1", "feature_2", "feature_3", "feature_4">>,
     metric |-> population_stability_index,
     threshold |-> 5]

\* lines 35-44: main enters create_drift_signal
create_monitor_call_signal ==
    /\ script = "create_monitor"
    /\ main_pc = "signal"
    /\ create_drift_signal_build(MainSignalArgs)
    /\ main_pc' = "in_signal"
    /\ UNCHANGED <<history, script, env, ended, stdout, files, frame, requests>>

\* line 35: signal = the builder's result
create_monitor_signal_returned ==
    /\ script = "create_monitor"
    /\ main_pc = "in_signal"
    /\ pc = "returned"
    /\ frame' = [frame EXCEPT !.signal = ret]
    /\ pc' = "idle"
    /\ main_pc' = "direct_signal"
    /\ UNCHANGED <<ml_client, signals_calls, schedules_calls, fn, args, local, response,
                   thrown, exc, ret, entry, history, script, env, ended, stdout, files,
                   requests>>

\* lines 35 and 55: an exception out of a builder is not caught: it leaves main
create_monitor_builder_raised ==
    /\ script = "create_monitor"
    /\ main_pc \in {"in_signal", "in_schedule"}
    /\ pc = "raised"
    /\ ended' = exc
    /\ main_pc' = "aborted"
    /\ UNCHANGED <<buildervars, history, script, env, stdout, files, frame, requests>>

\* one create_or_update call made by main itself
Request(target, arg, raised) == [target |-> target, arg |-> arg, raised |-> raised]

\* lines 47-48, hasattr false: created_signal stays None
create_monitor_direct_signal_skip ==
    /\ script = "create_monitor"
    /\ main_pc = "direct_signal"
    /\ ~SignalsCapable(ml_client)
    /\ frame' = [frame EXCEPT !.created_signal = NoneObject]
    /\ main_pc' = "schedule"
    /\ UNCHANGED <<buildervars, history, script, env, ended, stdout, files, requests>>

\* lines 47-50: create_or_update(signal) returns r
create_monitor_direct_signal(r) ==
    /\ script = "create_monitor"
    /\ main_pc = "direct_signal"
    /\ SignalsCapable(ml_client)
    /\ signals_calls' = Append(signals_calls, frame.signal)
    /\ requests' = Append(requests, Request("monitor_signals", frame.signal, NoValue))
    /\ frame' = [frame EXCEPT !.created_signal = r]
    /\ main_pc' = "schedule"
    /\ UNCHANGED <<ml_client, schedules_calls, fn, pc, args, local, response, thrown,
                   exc, ret, entry, history, script, env, ended, stdout, files>>

\* create_monitor_direct_signal_raises without the try: the exception leaves main
create_monitor_direct_signal_propagates(e) ==
    /\ script = "create_monitor"
    /\ main_pc = "direct_signal"
    /\ SignalsCapable(ml_client)
    /\ signals_calls' = Append(signals_calls, frame.signal)
    /\ requests' = Append(requests, Request("monitor_signals", frame.signal, e))
    /\ ended' = e
    /\ main_pc' = "aborted"
    /\ UNCHANGED <<ml_client, schedules_calls, fn, pc, args, local, response, thrown,
                   exc, ret, entry, history, script, env, stdout, files, frame>>

\* lines 47-52: create_or_update(signal) raises e, caught: a warning is printed
create_monitor_direct_signal_raises(e) ==
    /\ script = "create_monitor"
    /\ main_pc = "direct_signal"
    /\ SignalsCapable(ml_client)
    /\ signals_calls' = Append(signals_calls, frame.signal)
    /\ requests' = Append(requests, Request("monitor_signals", frame.signal, e))
    /\ frame' = [frame EXCEPT !.created_signal = NoneObject]
    /\ stdout' = Append(stdout,
                        Printed("Warning: creating signal via ML client raised:", e))
    /\ main_pc' = "schedule"
    /\ UNCHANGED <<ml_client, schedules_calls, fn, pc, args, local, response, thrown,
                   exc, ret, entry, history, script, env, ended, files>>

\* MainScheduleArgs with the schedule's own name as signal_name
MainScheduleArgs_own_name ==
    [name |-> tx_daily_monitor,
     signal_name |-> tx_daily_monitor,
     frequency |-> <<"D", "a", "y">>,
     description |-> daily_description]

\* the arguments of the call of lines 55-61;
\* signal_name=getattr(signal, 'name', None)
MainScheduleArgs ==
    [name |-> tx_daily_monitor,
     signal_name |-> IF "name" \in DOMAIN frame.signal THEN frame.signal.name ELSE None,
     frequency |-> <<"D", "a", "y">>,
     description |-> daily_description]

\* lines 55-61: main enters create_monitor_schedule
create_monitor_call_schedule ==
    /\ script = "create_monitor"
    /\ main_pc = "schedule"
    /\ create_monitor_schedule_build(MainScheduleArgs)
    /\ main_pc' = "in_schedule"
    /\ UNCHANGED <<history, script, env, ended, stdout, files, frame, requests>>

\* line 55: schedule = the builder's result
create_monitor_schedule_returned ==
    /\ script = "create_monitor"
    /\ main_pc = "in_schedule"
    /\ pc = "returned"
    /\ frame' = [frame EXCEPT !.schedule = ret]
    /\ pc' = "idle"
    /\ main_pc' = "direct_schedule"
    /\ UNCHANGED <<ml_client, signals_calls, schedules_calls, fn, args, local, response,
                   thrown, exc, ret, entry, history, script, env, ended, stdout, files,
                   requests>>

\* lines 63-64, hasattr false: created_schedule stays None
create_monitor_direct_schedule_skip ==
    /\ script = "create_monitor"
    /\ main_pc = "direct_schedule"
    /\ ~SchedulesCapable(ml_client)
    /\ frame' = [frame EXCEPT !.created_schedule = NoneObject]
    /\ main_pc' = "dump_signal"
    /\ UNCHANGED <<buildervars, history, script, env, ended, stdout, files, requests>>

\* lines 63-66: create_or_update(schedule) returns r
create_monitor_direct_schedule(r) ==
    /\ script = "create_monitor"
    /\ main_pc = "direct_schedule"
    /\ SchedulesCapable(ml_client)
    /\ schedules_calls' = Append(schedules_calls, frame.schedule)
    /\ requests' = Append(requests, Request("monitor_schedules", frame.schedule, NoValue))
    /\ frame' = [frame EXCEPT !.created_schedule = r]
    /\ main_pc' = "dump_signal"
    /\ UNCHANGED <<ml_client, signals_calls, fn, pc, args, local, response, thrown,
                   exc, ret, entry, history, script, env, ended, stdout, files>>

\* lines 63-68: create_or_update(schedule) raises e, caught: a warning is printed
create_monitor_direct_schedule_raises(e) ==
    /\ script = "create_monitor"
    /\ main_pc = "direct_schedule"
    /\ SchedulesCapable(ml_client)
    /\ schedules_calls' = Append(schedules_calls, frame.schedule)
    /\ requests' = Append(requests, Request("monitor_schedules", frame.schedule, e))
    /\ frame' = [frame EXCEPT !.created_schedule = NoneObject]
    /\ stdout' = Append(stdout,
                        Printed("Warning: creating schedule via ML client raised:", e))
    /\ main_pc' = "dump_signal"
    /\ UNCHANGED <<ml_client, signals_calls, fn, pc, args, local, response, thrown,
                   exc, ret, entry, history, script, env, ended, files>>

\* lines 71-110, dump_debug(obj, prefix): writes prefix_debug.json and
\* prefix_debug.txt; a write that fails is caught and reported on stdout
dump_debug(prefix, json_ok, txt_ok) ==
    /\ files' = files
                \o (IF json_ok THEN <<[file |-> prefix, ext |-> "_debug.json"]>> ELSE <<>>)
                \o (IF txt_ok THEN <<[file |-> prefix, ext |-> "_debug.txt"]>> ELSE <<>>)
    /\ stdout' = stdout
                 \o (IF json_ok THEN <<>>
                     ELSE <<Printed("Failed to write _debug.json:", [file |-> prefix])>>)
                 \o (IF txt_ok THEN <<>>
                     ELSE <<Printed("Failed to write _debug.txt:", [file |-> prefix])>>)

\* line 112: dump_debug(created_signal, 'created_signal')
create_monitor_dump_signal(json_ok, txt_ok) ==
    /\ script = "create_monitor"
    /\ main_pc = "dump_signal"
    /\ dump_debug("created_signal", json_ok, txt_ok)
    /\ main_pc' = "dump_schedule"
    /\ UNCHANGED <<buildervars, history, script, env, ended, frame, requests>>

\* line 114: dump_debug(created_schedule, 'created_schedule')
create_monitor_dump_schedule(json_ok, txt_ok) ==
    /\ script = "create_monitor"
    /\ main_pc = "dump_schedule"
    /\ dump_debug("created_schedule", json_ok, txt_ok)
    /\ main_pc' = "print"
    /\ UNCHANGED <<buildervars, history, script, env, ended, frame, requests>>

\* line 116: the final message
create_monitor_print_done ==
    /\ script = "create_monitor"
    /\ main_pc = "print"
    /\ stdout' = Append(stdout, Printed("Monitor and schedule created.", NoValue))
    /\ main_pc' = "done"
    /\ UNCHANGED <<buildervars, history, script, env, ended, files, frame, requests>>

NextMain ==
    \/ create_monitor_check_env
    \/ create_monitor_check_datastore
    \/ create_monitor_call_signal
    \/ /\ \E r \in Responses : create_drift_signal_upsert(r)
       /\ UNCHANGED <<history, scriptvars>>
    \/ /\ \E e \in Exceptions : create_drift_signal_upsert_raises(e)
       /\ UNCHANGED <<history, scriptvars>>
    \/ /\ create_drift_signal_skip
       /\ UNCHANGED <<history, scriptvars>>
    \/ /\ create_drift_signal_return
       /\ UNCHANGED <<history, scriptvars>>
    \/ create_monitor_signal_returned
    \/ create_monitor_builder_raised
    \/ create_monitor_direct_signal_skip
    \/ \E r \in Responses : create_monitor_direct_signal(r)
    \/ \E e \in Exceptions : create_monitor_direct_signal_raises(e)
    \/ create_monitor_call_schedule
    \/ /\ \E r \in Responses : create_monitor_schedule_upsert(r)
       /\ UNCHANGED <<history, scriptvars>>
    \/ /\ \E e \in Exceptions : create_monitor_schedule_upsert_raises(e)
       /\ UNCHANGED <<history, scriptvars>>
    \/ /\ create_monitor_schedule_skip
       /\ UNCHANGED <<history, scriptvars>>
    \/ /\ create_monitor_schedule_return
       /\ UNCHANGED <<history, scriptvars>>
    \/ create_monitor_schedule_returned
    \/ create_monitor_direct_schedule_skip
    \/ \E r \in Responses : create_monitor_direct_schedule(r)
    \/ \E e \in Exceptions : create_monitor_direct_schedule_raises(e)
    \/ \E json_ok, txt_ok \in BOOLEAN : create_monitor_dump_signal(json_ok, txt_ok)
    \/ \E json_ok, txt_ok \in BOOLEAN : create_monitor_dump_schedule(json_ok, txt_ok)
    \/ create_monitor_print_done

SpecMain == InitMain /\ [][NextMain]_vars

(***************************************************************************)
(* State machine: scripts/check_monitor_api_versions.main. The GET of      *)
(* call_arm returns a response with some status and a body that is JSON or *)
(* not; the script is sequential, so a step that can be taken is taken.    *)
(***************************************************************************)
API_VERSIONS ==
    <<"2025-10-01-preview", "2025-04-01-preview", "2024-08-01-preview",
      "2024-06-01-preview", "2024-01-01-preview", "2023-10-01",
      "2023-10-01-preview">>

\* line 109
paths == <<"monitorSchedules", "monitorSignals">>

\* the variables main reads with get_env_var, in the order of lines 96-98
ApiEnvOrder == <<"AZURE_SUBSCRIPTION_ID", "AZURE_RESOURCE_GROUP", "AZURE_ML_WORKSPACE">>

\* what requests.get can answer: a status, and a body resp.json() parses or not
HttpResponses ==
    {[status_code |-> 200, json |-> TRUE], [status_code |-> 404, json |-> FALSE]}

\* lines 47-48
build_workspace_resource_id(subscription, resource_group, workspace) ==
    <<"/", "s", "u", "b", "s", "c", "r", "i", "p", "t", "i", "o", "n", "s",
      "/">>
    \o subscription
    \o
    <<"/", "r", "e", "s", "o", "u", "r", "c", "e", "G", "r", "o", "u", "p",
      "s", "/">>
    \o resource_group
    \o
    <<"/", "p", "r", "o", "v", "i", "d", "e", "r", "s", "/", "M", "i", "c",
      "r", "o", "s", "o", "f", "t", ".", "M", "a", "c", "h", "i", "n", "e",
      "L", "e", "a", "r", "n", "i", "n", "g", "S", "e", "r", "v", "i", "c",
      "e", "s", "/", "w", "o", "r", "k", "s", "p", "a", "c", "e", "s", "/">>
    \o workspace

\* lines 57-68: the GET call_arm sends and the dict it returns for response resp
ArmRequest(resource_id, api_version, path) ==
    [method |-> "GET", resource_id |-> resource_id, path |-> path,
     api_version |-> api_version]

call_arm(resource_id, api_version, path, resp) ==
    [status_code |-> resp.status_code,
     body |-> IF resp.json THEN [json |-> "parsed"] ELSE [text |-> "resp.text"],
     url |-> ArmRequest(resource_id, api_version, path)]

InitApi ==
    /\ BuilderIdle
    /\ ml_client = [monitor_signals |-> FALSE, monitor_signals_create_or_update |-> FALSE,
                    monitor_schedules |-> FALSE, monitor_schedules_create_or_update |-> FALSE]
    /\ script = "check_monitor_api_versions"
    /\ main_pc = "env"
    /\ env \in [{ApiEnvOrder[i] : i \in 1..Len(ApiEnvOrder)} -> EnvValues]
    /\ ended = NoValue
    /\ stdout = <<>>
    /\ files = <<>>
    /\ frame = [env_i |-> 1, resource_id |-> <<>>, api_i |-> 1, path_i |-> 1,
                results |-> <<>>]
    /\ requests = <<>>

\* lines 37-44 as called on lines 96-98: the next variable, or exit code 2
get_env_var ==
    /\ script = "check_monitor_api_versions"
    /\ main_pc = "env"
    /\ LET name == ApiEnvOrder[frame.env_i]
       IN  IF Falsy(env[name])
             THEN /\ stdout' = Append(stdout,
                                  Printed("Environment variable not set.", [name |-> name]))
                  /\ ended' = SystemExit
                  /\ main_pc' = "exited"
                  /\ frame' = frame
             ELSE /\ frame' = [frame EXCEPT !.env_i = @ + 1]
                  /\ main_pc' = IF frame.env_i = Len(ApiEnvOrder) THEN "report" ELSE "env"
                  /\ UNCHANGED <<stdout, ended>>
    /\ UNCHANGED <<buildervars, history, script, env, files, requests>>

\* lines 100-111: the SDK report, the resource id, results = {}
check_api_report ==
    /\ script = "check_monitor_api_versions"
    /\ main_pc = "report"
    /\ LET id == build_workspace_resource_id(env["AZURE_SUBSCRIPTION_ID"],
                                             env["AZURE_RESOURCE_GROUP"],
                                             env["AZURE_ML_WORKSPACE"])
       IN  /\ frame' = [frame EXCEPT !.resource_id = id, !.results = <<>>, !.api_i = 1]
           /\ stdout' = stdout \o <<Printed("azure-ai-ml installed:", NoValue),
                                    Printed("Target workspace resource id:", [id |-> id])>>
    /\ main_pc' = "for_api"
    /\ UNCHANGED <<buildervars, history, script, env, ended, files, requests>>

\* lines 112-114: the next api-version, results[api] = {}
check_api_next_version ==
    /\ script = "check_monitor_api_versions"
    /\ main_pc = "for_api"
    /\ frame.api_i <= Len(API_VERSIONS)
    /\ LET api == API_VERSIONS[frame.api_i]
       IN  /\ frame' = [frame EXCEPT
                          !.results = (api :> <<>>) @@ frame.results,
                          !.path_i = 1]
           /\ stdout' = Append(stdout, Printed("=== api-version:", [api |-> api]))
    /\ main_pc' = "for_path"
    /\ UNCHANGED <<buildervars, history, script, env, ended, files, requests>>

\* check_api_call with resp.raise_for_status() before the body is read
check_api_call_raise_for_status(resp) ==
    /\ script = "check_monitor_api_versions"
    /\ main_pc = "for_path"
    /\ frame.path_i <= Len(paths)
    /\ LET api == API_VERSIONS[frame.api_i]
           p == paths[frame.path_i]
           r == call_arm(frame.resource_id, api, p, resp)
       IN  /\ requests' = Append(requests, ArmRequest(frame.resource_id, api, p))
           /\ IF resp.status_code = 200
                THEN /\ stdout' = stdout \o <<Printed("Calling ...", [path |-> p]),
                                             Printed("status", [code |-> r.status_code]),
                                             Printed("body", r.body)>>
                     /\ frame' = [frame EXCEPT
                                    !.results = (api :> ((p :> r) @@ frame.results[api]))
                                                @@ frame.results,
                                    !.path_i = @ + 1]
                     /\ UNCHANGED <<main_pc, ended>>
                ELSE /\ stdout' = Append(stdout, Printed("Calling ...", [path |-> p]))
                     /\ ended' = [error |-> "HTTPError"]
                     /\ main_pc' = "aborted"
                     /\ frame' = frame
    /\ UNCHANGED <<buildervars, history, script, env, files>>

\* lines 115-123: one path of one api-version: the GET, the prints, the entry
check_api_call(resp) ==
    /\ script = "check_monitor_api_versions"
    /\ main_pc = "for_path"
    /\ frame.path_i <= Len(paths)
    /\ LET api == API_VERSIONS[frame.api_i]
           p == paths[frame.path_i]
           r == call_arm(frame.resource_id, api, p, resp)
       IN  /\ requests' = Append(requests, ArmRequest(frame.resource_id, api, p))
           /\ stdout' = stdout \o <<Printed("Calling ...", [path |-> p]),
                                    Printed("status", [code |-> r.status_code]),
                                    Printed("body", r.body)>>
           /\ frame' = [frame EXCEPT
                          !.results = (api :> ((p :> r) @@ frame.results[api]))
                                      @@ frame.results,
                          !.path_i = @ + 1]
    /\ UNCHANGED <<buildervars, history, script, env, ended, files, main_pc>>

\* line 115 exhausted: back to line 112
check_api_paths_done ==
    /\ script = "check_monitor_api_versions"
    /\ main_pc = "for_path"
    /\ frame.path_i > Len(paths)
    /\ frame' = [frame EXCEPT !.api_i = @ + 1]
    /\ main_pc' = "for_api"
    /\ UNCHANGED <<buildervars, history, script, env, ended, stdout, files, requests>>

\* lines 125-129: the results file and the last message
check_api_write_results ==
    /\ script = "check_monitor_api_versions"
    /\ main_pc = "for_api"
    /\ frame.api_i > Len(API_VERSIONS)
    /\ files' = Append(files, [file |-> "monitor_api_check_results", ext |-> ".json"])
    /\ stdout' = Append(stdout, Printed("Results written to", NoValue))
    /\ main_pc' = "done"
    /\ UNCHANGED <<buildervars, history, script, env, ended, frame, requests>>

NextApi ==
    \/ get_env_var
    \/ check_api_report
    \/ check_api_next_version
    \/ \E resp \in HttpResponses : check_api_call(resp)
    \/ check_api_paths_done
    \/ check_api_write_results

SpecApi == InitApi /\ [][NextApi]_vars /\ WF_vars(NextApi)

(***************************************************************************)
(* State machine: train_register.main and upload_inference.main. Each      *)
(* registers its assets with create_or_update: first with keyword          *)
(* arguments, then, if that raised TypeError, with an entity object.       *)
(***************************************************************************)
RegisterScripts == {"train_register", "upload_inference"}

\* the assets a script registers, in order: train_register lines 32-39 and
\* 49-55, upload_inference lines 31-41
Assets(s) ==
    IF s = "train_register"
      THEN <<[target |-> "data", name |-> "tx_training_dataset"],
             [target |-> "models", name |-> "tx_rf_model"]>>
      ELSE <<[target |-> "data", name |-> "inference_batch_csv"]>>

TypeError == [error |-> "TypeError"]

\* upload_inference line 38: os.environ.get('DEFAULT_DATASTORE', 'workspaceblobstore')
upload_datastore ==
    IF env["DEFAULT_DATASTORE"] = None
      THEN
        <<"w", "o", "r", "k", "s", "p", "a", "c", "e", "b", "l", "o", "b",
          "s", "t", "o", "r", "e">>
      ELSE env["DEFAULT_DATASTORE"]

\* upload_inference line 39
cloud_path(datastore) ==
    <<"a", "z", "u", "r", "e", "m", "l", ":", "/", "/", "d", "a", "t", "a",
      "s", "t", "o", "r", "e", "s", "/">>
    \o datastore
    \o
    <<"/", "p", "a", "t", "h", "s", "/", "m", "o", "n", "i", "t", "o", "r",
      "i", "n", "g", "/", "i", "n", "f", "e", "r", "e", "n", "c", "e", "-",
      "b", "a", "t", "c", "h", "e", "s", "/">>

InitRegister ==
    /\ BuilderIdle
    /\ ml_client = [monitor_signals |-> FALSE, monitor_signals_create_or_update |-> FALSE,
                    monitor_schedules |-> FALSE, monitor_schedules_create_or_update |-> FALSE]
    /\ script \in RegisterScripts
    /\ main_pc = "env"
    /\ env \in [EnvNames -> EnvValues]
    /\ ended = NoValue
    /\ stdout = <<>>
    /\ files = <<>>
    /\ frame = [asset_i |-> 1, cloud_path |-> NoValue]
    /\ requests = <<>>

\* train_register lines 17-28, upload_inference lines 12-27: the workspace
\* variables, the client and the local CSV file
register_check_env ==
    /\ script \in RegisterScripts
    /\ main_pc = "env"
    /\ IF \/ Falsy(env["AZURE_SUBSCRIPTION_ID"])
          \/ Falsy(env["AZURE_RESOURCE_GROUP"])
          \/ Falsy(env["AZURE_ML_WORKSPACE"])
         THEN main_pc' = "exited" /\ ended' = SystemExit /\ files' = files
         ELSE /\ main_pc' = "keyword"
              /\ ended' = ended
              /\ files' = Append(files,
                                 IF script = "train_register"
                                   THEN [file |-> "train", ext |-> ".csv"]
                                   ELSE [file |-> "inference_batch", ext |-> ".csv"])
    /\ UNCHANGED <<buildervars, history, script, env, stdout, frame, requests>>

\* what follows a registration that succeeded: the next asset of
\* train_register (lines 41-45 train the model in between), or the end
AfterRegistered ==
    IF frame.asset_i < Len(Assets(script))
      THEN /\ frame' = [frame EXCEPT !.asset_i = @ + 1]
           /\ main_pc' = "keyword"
           /\ files' = Append(files, [file |-> "rf_model", ext |-> ".joblib"])
           /\ stdout' = stdout
      ELSE /\ frame' = frame
           /\ main_pc' = "done"
           /\ files' = files
           /\ stdout' = Append(stdout,
                               IF script = "train_register"
                                 THEN Printed("Training data and model registered.", NoValue)
                                 ELSE Printed("Uploaded and registered inference CSV as data asset: inference_batch_csv", NoValue))

\* the create_or_update call of one asset in one of its two forms
Registration(asset, form, raised) ==
    Request(asset.target, [form |-> form, name |-> asset.name], raised)

\* train_register lines 31-35 and 48-52, upload_inference lines 30-35: the
\* keyword form returns
register_keyword ==
    /\ script \in RegisterScripts
    /\ main_pc = "keyword"
    /\ requests' = Append(requests,
                          Registration(Assets(script)[frame.asset_i], "keyword", NoValue))
    /\ AfterRegistered
    /\ UNCHANGED <<buildervars, history, script, env, ended>>

\* register_keyword_raises with `except Exception` in place of `except TypeError`
register_keyword_raises_any_caught(e) ==
    /\ script \in RegisterScripts
    /\ main_pc = "keyword"
    /\ requests' = Append(requests,
                          Registration(Assets(script)[frame.asset_i], "keyword", e))
    /\ main_pc' = "entity"
    /\ frame' = IF script = "upload_inference"
                  THEN [frame EXCEPT !.cloud_path = cloud_path(upload_datastore)]
                  ELSE frame
    /\ UNCHANGED <<buildervars, history, script, env, ended, stdout, files>>

\* the keyword form raises e: TypeError is caught (train_register lines 36 and
\* 53, upload_inference lines 36-39), anything else leaves main
register_keyword_raises(e) ==
    /\ script \in RegisterScripts
    /\ main_pc = "keyword"
    /\ requests' = Append(requests,
                          Registration(Assets(script)[frame.asset_i], "keyword", e))
    /\ IF e = TypeError
         THEN /\ main_pc' = "entity"
              /\ ended' = ended
              /\ frame' = IF script = "upload_inference"
                            THEN [frame EXCEPT !.cloud_path = cloud_path(upload_datastore)]
                            ELSE frame
         ELSE /\ main_pc' = "aborted"
              /\ ended' = e
              /\ frame' = frame
    /\ UNCHANGED <<buildervars, history, script, env, stdout, files>>

\* train_register lines 38-39 and 54-55, upload_inference lines 40-42: the
\* entity form returns
register_entity ==
    /\ script \in RegisterScripts
    /\ main_pc = "entity"
    /\ requests' = Append(requests,
                          Registration(Assets(script)[frame.asset_i], "entity", NoValue))
    /\ AfterRegistered
    /\ UNCHANGED <<buildervars, history, script, env, ended>>

\* the entity form raises e inside the except clause: e leaves main
register_entity_raises(e) ==
    /\ script \in RegisterScripts
    /\ main_pc = "entity"
    /\ requests' = Append(requests,
                          Registration(Assets(script)[frame.asset_i], "entity", e))
    /\ main_pc' = "aborted"
    /\ ended' = e
    /\ UNCHANGED <<buildervars, history, script, env, stdout, files, frame>>

NextRegister ==
    \/ register_check_env
    \/ register_keyword
    \/ \E e \in Exceptions : register_keyword_raises(e)
    \/ register_entity
    \/ \E e \in Exceptions : register_entity_raises(e)

SpecRegister == InitRegister /\ [][NextRegister]_vars

(***************************************************************************)
(* Properties.                                                             *)
(***************************************************************************)
SignalFields == {"name", "baseline_data", "target_data", "features", "metric", "threshold"}
ScheduleFields == {"name", "signals", "frequency", "description"}

\* the create_or_update calls made on each capability since the builder was entered
SignalsCallsMade == Len(signals_calls) - entry.signals
SchedulesCallsMade == Len(schedules_calls) - entry.schedules

\* the client has the capability the running builder asks for
Capable ==
    \/ fn = "create_drift_signal" /\ SignalsCapable(ml_client)
    \/ fn = "create_monitor_schedule" /\ SchedulesCapable(ml_client)

\* the running builder is about to return or has returned
PastUpsert == pc \in {"signal_return", "schedule_return", "returned"}

\* C1: on a client with monitor_signals.create_or_update (resp.
\* monitor_schedules.create_or_update), a builder that is about to return or has
\* returned has made exactly one create_or_update call, on its own capability,
\* so the call precedes the return; and the argument of that call equals the
\* returned descriptor field by field.
C1_OneUpsertWithTheDescriptor ==
    /\ (fn = "create_drift_signal" /\ SignalsCapable(ml_client) /\ PastUpsert) =>
          /\ SignalsCallsMade = 1
          /\ pc = "returned" =>
                /\ DOMAIN ret = SignalFields
                /\ DOMAIN signals_calls[Len(signals_calls)] = SignalFields
                /\ \A f \in SignalFields : signals_calls[Len(signals_calls)][f] = ret[f]
    /\ (fn = "create_monitor_schedule" /\ SchedulesCapable(ml_client) /\ PastUpsert) =>
          /\ SchedulesCallsMade = 1
          /\ pc = "returned" =>
                /\ DOMAIN ret = ScheduleFields
                /\ DOMAIN schedules_calls[Len(schedules_calls)] = ScheduleFields
                /\ \A f \in ScheduleFields : schedules_calls[Len(schedules_calls)][f] = ret[f]

C1_Witness ==
    /\ fn = "create_drift_signal"
    /\ SignalsCapable(ml_client)
    /\ pc = "returned"
    /\ Len(signals_calls) = 1
    /\ signals_calls[1].features = <<"f1", "f2">>
    /\ ret.features = <<"f1", "f2">>

\* C2: on a client without the capability (no monitor_signals /
\* monitor_schedules attribute, or one without create_or_update) the builder
\* makes no create_or_update call, raises nothing, and returns the fully
\* populated descriptor its arguments determine, the same as on a capable client.
C2_IncapableClientStillGetsDescriptor ==
    (fn # "none" /\ ~Capable) =>
        /\ SignalsCallsMade = 0
        /\ SchedulesCallsMade = 0
        /\ pc # "raised"
        /\ exc = NoValue
        /\ thrown = NoValue
        /\ pc = "returned" =>
              /\ fn = "create_drift_signal" =>
                    DOMAIN ret = SignalFields /\ ret = BuildSignal(args)
              /\ fn = "create_monitor_schedule" =>
                    DOMAIN ret = ScheduleFields /\ ret = BuildSchedule(args)

C2_Witness ==
    /\ fn = "create_drift_signal"
    /\ ml_client.monitor_signals
    /\ ~ml_client.monitor_signals_create_or_update
    /\ pc = "returned"
    /\ ret.name = <<"s">>
    /\ signals_calls = <<>>

\* C3: when create_or_update raises, the exception the caller sees is the one
\* the client raised, nothing is returned, and the builder made exactly one
\* create_or_update call, on its own capability.
C3_UpsertFailurePropagates ==
    thrown # NoValue =>
        /\ pc = "raised"
        /\ exc = thrown
        /\ thrown \in Exceptions
        /\ ret = NoValue
        /\ fn = "create_drift_signal" => SignalsCallsMade = 1 /\ SchedulesCallsMade = 0
        /\ fn = "create_monitor_schedule" => SchedulesCallsMade = 1 /\ SignalsCallsMade = 0

C3_Witness ==
    /\ fn = "create_drift_signal"
    /\ pc = "raised"
    /\ thrown = [error |-> "HttpResponseError"]
    /\ exc = thrown
    /\ Len(signals_calls) = 1

\* C4: the returned signal's baseline_data is the eight characters "azureml:"
\* followed by the baseline_dataset argument, character for character.
C4_BaselineReference ==
    (fn = "create_drift_signal" /\ pc = "returned") =>
        LET b == args.baseline_dataset
            r == ret.baseline_data
        IN  /\ Len(r) = 8 + Len(b)
            /\ SubSeq(r, 1, 8) = <<"a", "z", "u", "r", "e", "m", "l", ":">>
            /\ SubSeq(r, 9, Len(r)) = b

C4_Witness ==
    /\ fn = "create_drift_signal"
    /\ pc = "returned"
    /\ args.baseline_dataset = <<"a", ":", "/">>
    /\ ret.baseline_data = <<"a", "z", "u", "r", "e", "m", "l", ":", "a", ":", "/">>

\* C5: the returned signal's target_data contains "datastores/" followed by
\* the datastore_name argument, whether or not path ends with a slash.
C5_TargetContainsDatastore ==
    (fn = "create_drift_signal" /\ pc = "returned") =>
        Contains(ret.target_data,
                 <<"d", "a", "t", "a", "s", "t", "o", "r", "e", "s", "/">>
                 \o args.datastore_name)

C5_Witness ==
    /\ fn = "create_drift_signal"
    /\ pc = "returned"
    /\ args.datastore_name = <<"d", "s", "1">>
    /\ args.path = <<"m", "/">>

\* path without its trailing slashes, stated without recursion: the prefix
\* that does not end with "/" and is followed by slashes only
WithoutTrailingSlashes(p) ==
    LET n == CHOOSE k \in 0..Len(p) :
                 /\ k = 0 \/ p[k] # "/"
                 /\ \A i \in (k + 1)..Len(p) : p[i] = "/"
    IN  SubSeq(p, 1, n)

\* 'azureml://datastores/' + d + '/paths/' + q + '/'
TargetForm(d, q) ==
    <<"a", "z", "u", "r", "e", "m", "l", ":", "/", "/",
      "d", "a", "t", "a", "s", "t", "o", "r", "e", "s", "/">>
    \o d \o <<"/", "p", "a", "t", "h", "s", "/">> \o q \o <<"/">>

\* the last character of t is "/" and the one before it is not
EndsWithOneSlash(t) ==
    /\ Len(t) >= 2
    /\ t[Len(t)] = "/"
    /\ t[Len(t) - 1] # "/"

\* C6 as claimed: target_data is the same for path and path + "/", has the form
\* 'azureml://datastores/' + d + '/paths/' + p' + '/' with p' the path without
\* trailing slashes, and ends with exactly one "/" for every path.
C6_AsClaimed ==
    (fn = "create_drift_signal" /\ pc = "returned") =>
        /\ ret.target_data = target_ref(args.datastore_name, Append(args.path, "/"))
        /\ ret.target_data = TargetForm(args.datastore_name, WithoutTrailingSlashes(args.path))
        /\ EndsWithOneSlash(ret.target_data)

\* C6 amended: target_data is the same for path and path + "/" and has the form
\* 'azureml://datastores/' + d + '/paths/' + p' + '/'; it ends with exactly one
\* "/" when p' is not empty, and with the two slashes of "/paths//" when path
\* is empty or consists of slashes only.
C6_TrailingSlashNormalized ==
    (fn = "create_drift_signal" /\ pc = "returned") =>
        LET q == WithoutTrailingSlashes(args.path)
            t == ret.target_data
        IN  /\ t = target_ref(args.datastore_name, Append(args.path, "/"))
            /\ t = TargetForm(args.datastore_name, q)
            /\ q # <<>> => EndsWithOneSlash(t)
            /\ q = <<>> => SubSeq(t, Len(t) - 7, Len(t))
                              = <<"/", "p", "a", "t", "h", "s", "/", "/">>

C6_Witness ==
    /\ fn = "create_drift_signal"
    /\ pc = "returned"
    /\ args.path = <<"m", "/">>
    /\ args.datastore_name = <<"d", "s", "1">>
    /\ ret.target_data = <<"a", "z", "u", "r", "e", "m", "l", ":", "/", "/",
                           "d", "a", "t", "a", "s", "t", "o", "r", "e", "s", "/",
                           "d", "s", "1", "/", "p", "a", "t", "h", "s", "/", "m", "/">>

\* C7: the returned signal's features is the features argument, same elements
\* in the same order, and its name, metric and threshold are the arguments.
C7_PassThrough ==
    (fn = "create_drift_signal" /\ pc = "returned") =>
        /\ Len(ret.features) = Len(args.features)
        /\ \A i \in 1..Len(args.features) : ret.features[i] = args.features[i]
        /\ ret.name = args.name
        /\ ret.metric = args.metric
        /\ ret.threshold = args.threshold

C7_Witness ==
    /\ fn = "create_drift_signal"
    /\ pc = "returned"
    /\ args.features = <<"f2", "f2">>
    /\ ret.features = <<"f2", "f2">>

\* C8: the returned schedule's signals has exactly one element, the
\* signal_name argument; name and frequency are the arguments; description is
\* None when the call does not supply it, and the supplied value otherwise.
C8_ScheduleSignals ==
    (fn = "create_monitor_schedule" /\ pc = "returned") =>
        /\ Len(ret.signals) = 1
        /\ ret.signals[1] = args.signal_name
        /\ ret.name = args.name
        /\ ret.frequency = args.frequency
        /\ "description" \notin DOMAIN args => ret.description = None
        /\ "description" \in DOMAIN args => ret.description = args.description

C8_Witness ==
    /\ fn = "create_monitor_schedule"
    /\ pc = "returned"
    /\ "description" \notin DOMAIN args
    /\ args.signal_name = <<"s", "g">>
    /\ ret.signals = << <<"s", "g">> >>
    /\ ret.description = None

\* C9: whatever create_or_update returned, the builder returns the descriptor
\* it constructed from its arguments, never the response.
C9_ResponseIgnored ==
    (pc = "returned" /\ response \in Responses) =>
        /\ ret = local
        /\ fn = "create_drift_signal" => ret = BuildSignal(args)
        /\ fn = "create_monitor_schedule" => ret = BuildSchedule(args)

C9_Witness ==
    /\ fn = "create_drift_signal"
    /\ pc = "returned"
    /\ response = [remote |-> "created"]
    /\ ret = local
    /\ ret.name = <<"s">>

\* the signal arguments a validating builder would reject
Malformed(a) == a.features = <<>> \/ a.name = <<>> \/ a.threshold < 0

\* C10: for malformed arguments (empty feature list, empty name, negative
\* threshold) on a capable client, create_drift_signal raises nothing of its
\* own, builds the descriptor and hands it to create_or_update exactly once.
C10_NoLocalValidation ==
    (fn = "create_drift_signal" /\ SignalsCapable(ml_client) /\ Malformed(args)) =>
        /\ exc # NoValue => thrown \in Exceptions /\ exc = thrown
        /\ pc \in {"signal_built", "signal_return", "returned", "raised"}
        /\ local = BuildSignal(args)
        /\ pc # "signal_built" =>
              /\ SignalsCallsMade = 1
              /\ signals_calls[Len(signals_calls)] = local

C10_Witness ==
    /\ fn = "create_drift_signal"
    /\ SignalsCapable(ml_client)
    /\ pc = "returned"
    /\ args.features = <<>>
    /\ args.name = <<>>
    /\ args.threshold < 0
    /\ Len(signals_calls) = 1
    /\ signals_calls[1].features = <<>>

\* the calls of the history made to one builder
CallsOf(f) == SelectSeq(history, LAMBDA h : h.fn = f)

\* C13: on a client with both capabilities, after k builder calls that all
\* returned, the client has recorded exactly k create_or_update calls, those of
\* each capability in call order and each with the descriptor that call
\* returned, repeated names included; and two calls of one builder with equal
\* arguments returned equal descriptors.
C13_NoStateBetweenCalls ==
    (SignalsCapable(ml_client) /\ SchedulesCapable(ml_client)
        /\ pc \in {"idle", "returned"}) =>
        LET sig == CallsOf("create_drift_signal")
            sch == CallsOf("create_monitor_schedule")
        IN  /\ Len(signals_calls) + Len(schedules_calls) = Len(history)
            /\ Len(signals_calls) = Len(sig)
            /\ \A i \in 1..Len(sig) : signals_calls[i] = sig[i].ret
            /\ Len(schedules_calls) = Len(sch)
            /\ \A i \in 1..Len(sch) : schedules_calls[i] = sch[i].ret
            /\ \A i, j \in 1..Len(history) :
                  (history[i].fn = history[j].fn /\ history[i].args = history[j].args)
                      => history[i].ret = history[j].ret

C13_Witness ==
    /\ SignalsCapable(ml_client)
    /\ SchedulesCapable(ml_client)
    /\ pc = "returned"
    /\ Len(history) = 3
    /\ history[1].fn = "create_drift_signal"
    /\ history[2].fn = "create_monitor_schedule"
    /\ history[3].fn = "create_drift_signal"
    /\ history[3].args = history[1].args
    /\ Len(signals_calls) = 2
    /\ signals_calls[1].name = signals_calls[2].name

\* C14: no step of create_drift_signal changes the calls recorded on
\* monitor_schedules and no step of create_monitor_schedule changes those
\* recorded on monitor_signals; and a builder makes at most one call on its
\* own capability.
C14_OwnCapabilityOnly ==
    [][ /\ fn' = "create_drift_signal" =>
              /\ schedules_calls' = schedules_calls
              /\ Len(signals_calls') - entry'.signals \in {0, 1}
        /\ fn' = "create_monitor_schedule" =>
              /\ signals_calls' = signals_calls
              /\ Len(schedules_calls') - entry'.schedules \in {0, 1} ]_vars

C14_Witness ==
    /\ fn = "create_drift_signal"
    /\ pc = "returned"
    /\ Len(history) = 2
    /\ history[1].fn = "create_monitor_schedule"
    /\ Len(schedules_calls) = 1
    /\ schedules_calls[1] = history[1].ret
    /\ Len(signals_calls) = 1

\* how many elements of sequence q equal x
Occurrences(q, x) == Cardinality({i \in 1..Len(q) : q[i] = x})

\* the requests of main itself that raised
FailedRequests == SelectSeq(requests, LAMBDA q : q.raised # NoValue)

\* the warnings main printed
Warnings ==
    SelectSeq(stdout, LAMBDA l :
        l.msg \in {"Warning: creating signal via ML client raised:",
                   "Warning: creating schedule via ML client raised:"})

\* C11 as claimed: when create_monitor.main has finished on a client with both
\* capabilities and no create_or_update call failed, the signal descriptor
\* and the schedule descriptor were each handed to create_or_update exactly
\* once.
C11_EachRecordHandedOnce ==
    (script = "create_monitor" /\ main_pc = "done"
        /\ SignalsCapable(ml_client) /\ SchedulesCapable(ml_client)
        /\ FailedRequests = <<>>) =>
        /\ Occurrences(signals_calls, frame.signal) = 1
        /\ Occurrences(schedules_calls, frame.schedule) = 1

\* C12 as claimed: a create_or_update call that raises during
\* create_monitor.main never makes main abort.
C12_AsClaimed ==
    (script = "create_monitor" /\ (thrown # NoValue \/ FailedRequests # <<>>)) =>
        main_pc # "aborted"

\* C12 amended: a failure of one of main's own create_or_update calls (lines
\* 50 and 66) is swallowed: each prints one warning, main goes on and, once
\* done, has written its dumps' output and printed the final message last. A
\* failure of the call made inside a builder is the only thing that aborts
\* main, with that exception and without the final message.
C12_OnlyDirectCallsSwallowed ==
    script = "create_monitor" =>
        /\ Len(Warnings) = Len(FailedRequests)
        /\ \A i \in 1..Len(Warnings) : Warnings[i].arg = FailedRequests[i].raised
        /\ main_pc = "aborted" =>
              /\ thrown \in Exceptions
              /\ ended = thrown
              /\ pc = "raised"
              /\ \A i \in 1..Len(stdout) : stdout[i].msg # "Monitor and schedule created."
        /\ FailedRequests # <<>> =>
              main_pc \in {"schedule", "in_schedule", "direct_schedule", "dump_signal",
                           "dump_schedule", "print", "done", "aborted"}
        /\ main_pc = "done" =>
              /\ stdout[Len(stdout)].msg = "Monitor and schedule created."
              /\ frame.schedule # NoValue
              /\ ended = NoValue

C12_Witness ==
    /\ script = "create_monitor"
    /\ main_pc = "done"
    /\ Len(FailedRequests) = 2
    /\ Len(Warnings) = 2
    /\ frame.created_signal = NoneObject
    /\ frame.created_schedule = NoneObject

\* the configuration create_monitor.main needs is all there
ConfigComplete == \A n \in EnvNames : ~Falsy(env[n])

\* C16: when one of AZURE_SUBSCRIPTION_ID, AZURE_RESOURCE_GROUP,
\* AZURE_ML_WORKSPACE and DEFAULT_DATASTORE is unset or empty,
\* create_monitor.main never gets past its two checks, makes no
\* create_or_update call, and ends with SystemExit.
C16_NoUpsertWithoutConfig ==
    (script = "create_monitor" /\ ~ConfigComplete) =>
        /\ main_pc \in {"env", "datastore", "exited"}
        /\ signals_calls = <<>>
        /\ schedules_calls = <<>>
        /\ requests = <<>>
        /\ pc = "idle"
        /\ main_pc = "exited" => ended = SystemExit

C16_Witness ==
    /\ script = "create_monitor"
    /\ main_pc = "exited"
    /\ ended = SystemExit
    /\ env["DEFAULT_DATASTORE"] = <<>>
    /\ env["AZURE_SUBSCRIPTION_ID"] = <<"v">>
    /\ env["AZURE_RESOURCE_GROUP"] = <<"v">>
    /\ env["AZURE_ML_WORKSPACE"] = <<"v">>
    /\ SignalsCapable(ml_client)

\* every schedule handed to create_or_update names the signal main built
SchedulesNameTheSignal ==
    \A i \in 1..Len(schedules_calls) :
        /\ frame.signal # NoValue
        /\ frame.signal.name = tx_data_drift_signal
        /\ schedules_calls[i].signals = <<tx_data_drift_signal>>

\* C18 as claimed: in create_monitor.main a schedule upsert is attempted only
\* after a signal upsert was attempted, and every schedule submitted has
\* signals = ['tx_data_drift_signal'].
C18_AsClaimed ==
    script = "create_monitor" =>
        /\ schedules_calls # <<>> => signals_calls # <<>>
        /\ SchedulesNameTheSignal

\* C18 amended: in create_monitor.main a schedule upsert is attempted only
\* after create_drift_signal has returned the signal, and, on a client that has
\* monitor_signals.create_or_update, only after a signal upsert was attempted;
\* on a client that has monitor_schedules.create_or_update alone the schedule
\* is upserted without any signal upsert. Every schedule submitted has
\* signals = ['tx_data_drift_signal'].
C18_ScheduleAfterSignal ==
    script = "create_monitor" =>
        /\ schedules_calls # <<>> =>
              /\ frame.signal # NoValue
              /\ SignalsCapable(ml_client) => signals_calls # <<>>
              /\ ~SignalsCapable(ml_client) => signals_calls = <<>>
        /\ SchedulesNameTheSignal

C18_Witness ==
    /\ script = "create_monitor"
    /\ main_pc = "done"
    /\ SignalsCapable(ml_client)
    /\ Len(signals_calls) = 2
    /\ Len(schedules_calls) = 2
    /\ schedules_calls[1].signals = <<tx_data_drift_signal>>
    /\ schedules_calls[2].signals = <<tx_data_drift_signal>>

\* the (api-version, path) pairs in the order of the two loops: pair k
PairApi(k) == API_VERSIONS[((k - 1) \div Len(paths)) + 1]
PairPath(k) == paths[((k - 1) % Len(paths)) + 1]
PairCount == Len(API_VERSIONS) * Len(paths)

\* the three variables get_env_var reads are set and not empty
ApiEnvSet == \A i \in 1..Len(ApiEnvOrder) : ~Falsy(env[ApiEnvOrder[i]])

\* at every moment of check_monitor_api_versions.main with the three variables
\* set: the GETs sent so far are the first pairs in loop order, one each; no
\* status and no body has ended the run; and once the run is done every pair
\* has been sent and has its entry in results
C15_Safety ==
    (script = "check_monitor_api_versions" /\ ApiEnvSet) =>
        /\ Len(requests) <= PairCount
        /\ \A k \in 1..Len(requests) :
              /\ requests[k].method = "GET"
              /\ requests[k].api_version = PairApi(k)
              /\ requests[k].path = PairPath(k)
        /\ main_pc \notin {"aborted", "exited"}
        /\ ended = NoValue
        /\ main_pc = "done" =>
              /\ Len(requests) = PairCount
              /\ DOMAIN frame.results = {API_VERSIONS[i] : i \in 1..Len(API_VERSIONS)}
              /\ \A k \in 1..PairCount :
                    /\ DOMAIN frame.results[PairApi(k)] = {paths[j] : j \in 1..Len(paths)}
                    /\ frame.results[PairApi(k)][PairPath(k)].url = requests[k]

SameAsset(i, j) ==
    /\ requests[i].target = requests[j].target
    /\ requests[i].arg.name = requests[j].arg.name

\* C17: in train_register.main and upload_inference.main every asset is
\* registered with at most two create_or_update calls, the keyword form then the
\* entity form; the entity form is called only right after the keyword form of
\* the same asset raised TypeError, and then once; any other exception of the
\* keyword form, and any exception of the entity form, is the last call of the
\* run and leaves main.
C17_AtMostTwoAttempts ==
    script \in RegisterScripts =>
        /\ \A k \in 1..Len(requests) :
              LET q == requests[k]
              IN  /\ Cardinality({j \in 1..Len(requests) : SameAsset(j, k)}) <= 2
                  /\ Cardinality({j \in 1..Len(requests) :
                                     SameAsset(j, k) /\ requests[j].arg.form = q.arg.form}) = 1
                  /\ q.arg.form = "entity" =>
                        /\ k > 1
                        /\ SameAsset(k - 1, k)
                        /\ requests[k - 1].arg.form = "keyword"
                        /\ requests[k - 1].raised = TypeError
                  /\ (q.arg.form = "keyword" /\ q.raised = TypeError) =>
                        IF k = Len(requests)
                          THEN main_pc = "entity"
                          ELSE SameAsset(k + 1, k) /\ requests[k + 1].arg.form = "entity"
                  /\ (q.raised # NoValue /\ ~(q.arg.form = "keyword" /\ q.raised = TypeError)) =>
                        /\ k = Len(requests)
                        /\ main_pc = "aborted"
                        /\ ended = q.raised
        /\ main_pc = "aborted" => requests # <<>> /\ requests[Len(requests)].raised = ended

C17_Witness ==
    /\ script = "train_register"
    /\ main_pc = "aborted"
    /\ Len(requests) = 4
    /\ requests[1].raised = TypeError
    /\ requests[2].arg.form = "entity"
    /\ requests[2].raised = NoValue
    /\ requests[3].target = "models"
    /\ requests[3].raised = TypeError
    /\ requests[4].arg.form = "entity"
    /\ requests[4].raised = TypeError

====
